---- MODULE Spec2Model ----
(***************************************************************************)
(* Sorting pipeline of the RoboMaster EP sorting robot.                    *)
(*                                                                         *)
(* The module models SortingController (src/src/sorting/logic.py) as the   *)
(* state machine it runs for one sort attempt, one action per blocking     *)
(* step, together with sort_objects_batch, the statistics operations and   *)
(* the collaborators the controller drives: RobotMovement                  *)
(* (src/src/robot_control/movement.py), RobotGripper                       *)
(* (src/src/robot_control/gripper.py), the zone manager and the strategy.  *)
(*                                                                         *)
(* zones.py and strategy.py are not part of the source tree at hand; the   *)
(* zone manager and the class-based strategy are modelled from sections    *)
(* 4.3 and 4.4 of the specification.                                       *)
(*                                                                         *)
(* The gripper in the source tree is a stub whose methods take no `power`  *)
(* argument, so that every call the controller makes (power=50) raises     *)
(* TypeError.  gripper_api = "stub" is that gripper; gripper_api = "link"  *)
(* is a gripper that implements the robot-link interface of section 6      *)
(* (success | failure, or an exception of the SDK).  A safety property     *)
(* checked here holds for both.                                            *)
(*                                                                         *)
(* More state machines share the module, each with a specification of its *)
(* own in which the others stay in their initial state: the position of    *)
(* the chassis under the moves of the controller (SpecPos); main() of      *)
(* main.py with the sort attempts it starts (SpecMain); ThreadedCamera of  *)
(* tests/examples/04_camera/08_yolo_detection_threaded.py (SpecCam, and    *)
(* SpecCamFair under fair scheduling of its threads); and the object       *)
(* tracker, which is not part of the source tree either and is modelled    *)
(* from section 4.2 of the specification (SpecTracker).                    *)
(***************************************************************************)
EXTENDS Integers, Sequences, FiniteSets, TLC

\* ------------------------------------------------------------------ bounds
\* Sort attempts (sort_object invocations) in one run.
MaxAttempts == 3
\* Length of the list handed to sort_objects_batch.
MaxBatch == 2
\* Capacities a zone is created with are 1..MaxCapacity.
MaxCapacity == 1

\* ------------------------------------------------------- configuration data
\* config/settings.py: OBJECT_CLASSES, and a class that is not one of them.
OBJECT_CLASSES == {"bottle", "cup"}

AllClasses == OBJECT_CLASSES \cup {"spoon"}

\* config/settings.py: SORTING_ZONES keys.
SORTING_ZONES == {"zone_a", "zone_b", "zone_default"}

\* The classes of the objects sorted in a run, and the zones created in it.
Classes == {"cup", "spoon"}

ZoneNames == {"zone_a", "zone_default"}

\* config/settings.py: CLASS_ZONE_MAPPING.
CLASS_ZONE_MAPPING == [c \in {"bottle", "cup"} |-> IF c = "bottle" THEN "zone_b" ELSE "zone_a"]

\* The zone a class-based strategy falls back to (specification 4.4).
DefaultZone == "zone_default"

\* vision.detection.DetectedObject: class_name, confidence, bbox; it defines
\* no `center`, which navigate_to_object reads.
DetectedObject(c) == [class_name |-> c, has_center |-> FALSE]

\* Objects handed to sort_object.  The argument is duck-typed: besides a
\* DetectedObject a caller may pass an object that has a `center`.
Objects == [class_name : Classes, has_center : {TRUE}] \cup {DetectedObject("cup")}

NoObject == [class_name |-> "none", has_center |-> FALSE]

\* Strategies set_strategy accepts: none (constructor default), a class-based
\* strategy, and a strategy object whose determine_zone raises.
Strategies == {"None", "ClassBasedStrategy", "RaisingStrategy"}

\* ------------------------------------------------------ collaborator calls
\* chassis.move(...).wait_for_completed(): returns (its value is ignored by
\* the caller) or raises.
ChassisOutcomes == {"ok", "raise"}

\* RobotGripper of the source tree: open(self), grab_object(self),
\* release_object(self) accept no keyword `power`; the call raises TypeError.
GripperStubOutcomes == {"raise"}

\* A gripper implementing the robot-link interface: success, failure, or an
\* exception.
GripperLinkOutcomes == {"ok", "fail", "raise"}

GripperOutcomes(api) == IF api = "stub" THEN GripperStubOutcomes ELSE GripperLinkOutcomes

\* ------------------------------------------------------------ positions
\* config/settings.py: SORTING_ZONES[name]["position"], metres * 10.
position ==
    [n \in SORTING_ZONES |->
        CASE n = "zone_a" -> <<10, 5>>
          [] n = "zone_b" -> <<10, 15>>
          [] n = "zone_default" -> <<5, 15>>]

\* sort_object: `zone_position = zone.position` of the zone it looked up.
zone_position(name) == position[name]

\* navigate_to_object: move_forward(distance=0.3, ...), metres * 10.
ApproachDistance == 3

\* The position of a run in which the chassis is not followed.
Unobserved == << >>

\* chassis.move(x, y, z=0, ...).wait_for_completed(): the chassis moves by
\* (x, y) from where it is; a call that raised is taken not to have moved it.
chassis_move(p, dx, dy, outcome) ==
    IF outcome = "ok" /\ p # Unobserved THEN <<p[1] + dx, p[2] + dy>> ELSE p

\* RobotMovement.move_forward(distance): chassis.move(x=distance, y=0, z=0)
move_forward(p, distance, outcome) == chassis_move(p, distance, 0, outcome)

\* RobotMovement.move_to_position(x, y): chassis.move(x=x, y=y, z=0)
move_to_position(p, xy, outcome) == chassis_move(p, xy[1], xy[2], outcome)

\* Where a run begins: at the origin of the frame, or an approach short of it.
Starts == {<<0, 0>>, <<0 - ApproachDistance, 0>>}

\* ------------------------------------------------------------------- state
\* The locals and the result of a call exist until the caller's next
\* operation begins: every operation that starts at Idle clears them.
VARIABLES
    robot,                 \* "none" | "connected": the robot given to __init__
    gripper_api,           \* "stub" | "link"
    strategy,              \* self.strategy
    zones,                 \* self.zone_manager.zones: name -> Zone record
    sorted_objects_count,  \* self.sorted_objects_count
    phase,                 \* phase of the current / just finished sort attempt
    failed_at,             \* phase at which that attempt failed ("none")
    cur,                   \* detected_object of the attempt
    zone_name,             \* zone_name local of sort_object
    ret,                   \* value returned by the attempt
    cmds,                  \* actuator commands issued in the attempt, in order
    queue,                 \* sort_objects_batch: objects still to iterate
    in_batch,              \* a sort_objects_batch call is active
    sorted_count,          \* sort_objects_batch local
    batch_ret,             \* value just returned by sort_objects_batch (-1: none)
    stats,                 \* value just returned by get_sorting_statistics
    att,                   \* history of the attempt (see NoAtt)
    bat,                   \* history of the batch call (see NoBat)
    hist,                  \* history of the run (see InitHist)
    pos                    \* where the chassis is, in the frame of the zone
                           \* positions, in tenths of a metre (or Unobserved)

controller == <<pos, robot, gripper_api, strategy, zones, sorted_objects_count,
                phase, failed_at, cur, zone_name, ret, cmds, queue, in_batch,
                sorted_count, batch_ret, stats, att, bat, hist>>

\* main() of main.py
VARIABLES
    main_pc,               \* the statement main is at ("exit": it returned)
    connection,            \* "None" | "RobotConnection": what initialize_robot gave
    lifecycle,             \* the calls main made on the camera stream, the
                           \* connection, the detector and sort_object, in order
    frame_count,           \* frame_count local of main
    raised,                \* what was raised in main, and where (see NoRaise)
    exit_code,             \* value main returned (-1: none yet)
    settings,              \* config/settings.py as main imported it
    detections,            \* detections local of main: the classes detected
    absent                 \* iterations in a row in which get_frame gave None

mainVars == <<main_pc, connection, lifecycle, frame_count, raised, exit_code,
              settings, detections, absent>>

\* ThreadedCamera of tests/examples/04_camera/08_yolo_detection_threaded.py
VARIABLES
    frame,                 \* self.frame: 0 is None, k > 0 the k-th frame the
                           \* device delivered
    stopped,               \* self.stopped
    lock,                  \* self.lock: "free" or the thread that holds it
    readers,               \* the threads start() launches, each running _update
                           \* (late: launched when stop() had been called)
    callers,               \* the threads that call read()
    device,                \* ep_camera: frames delivered, outcome of the latest
                           \* read_cv2_image
    stored                 \* the frames assigned to self.frame so far

camVars == <<frame, stopped, lock, readers, callers, device, stored>>

\* ObjectTracker (spec 4.2), as initialize_vision constructs it
VARIABLES
    registry,              \* track_id -> Tracked Object (centroid, disappeared)
    next_id,               \* the counter the track_ids are allocated from
    assigned,              \* result of the latest update: centroid of a
                           \* detection -> track_id
    seen                   \* history of each place an object can be at (see
                           \* NeverSeen)

trackVars == <<registry, next_id, assigned, seen>>

\* What a step of main or of the controller in main leaves alone.
aside == <<camVars, trackVars>>

\* What a step of the controller leaves alone.
others == <<mainVars, camVars, trackVars>>

\* What a step of main leaves alone.
notMain == <<controller, camVars, trackVars>>

\* What a step of a ThreadedCamera thread leaves alone.
notCam == <<controller, mainVars, trackVars>>

\* What an update of the tracker leaves alone.
notTracker == <<controller, mainVars, camVars>>

vars == <<controller, mainVars, camVars, trackVars>>

Active == {"Resolving", "Navigating", "GrippingOpen", "GrippingGrab",
           "Transporting", "Placing"}

Idle == phase \notin Active /\ ~in_batch

NoStats == [total_sorted |-> -1, strategy |-> "None", zones |-> -1]

\* ------------------------------------------------ zone manager (spec 4.3)
\* get_zone(name) -> Zone | absent: ZoneFound is "the result is a Zone".
ZoneFound(name) == name \in DOMAIN zones

\* Zone.add_object(): increments the occupancy; at capacity it fails and
\* leaves the occupancy alone.
add_object_ok(name) == zones[name].occupied < zones[name].capacity

add_object(name) ==
    IF add_object_ok(name)
    THEN [zones EXCEPT ![name].occupied = @ + 1]
    ELSE zones

\* create_zone(name, position, capacity): fails if the name exists.
ZoneWith(name, capacity) ==
    [n \in DOMAIN zones \cup {name} |->
        IF n = name THEN [capacity |-> capacity, occupied |-> 0] ELSE zones[n]]

Occupancy == [n \in DOMAIN zones |-> zones[n].occupied]

\* --------------------------------------------------- strategy (spec 4.4)
\* ClassBasedStrategy.determine_zone: the mapped zone, else the default zone.
determine_zone(obj) ==
    IF obj.class_name \in DOMAIN CLASS_ZONE_MAPPING
    THEN CLASS_ZONE_MAPPING[obj.class_name]
    ELSE DefaultZone

\* ------------------------------------------------------------ initial state
NoAtt ==
    [count0      |-> 0,        \* sorted_objects_count when the attempt began
     occ0        |-> << >>,    \* Occupancy when the attempt began
     zone_absent |-> FALSE,    \* the zone lookup found no zone
     cap_refused |-> FALSE]    \* add_object was refused for capacity

NoBat ==
    [input     |-> << >>,      \* the list given to sort_objects_batch
     attempted |-> << >>,      \* the objects it has begun to sort, in order
     failed    |-> 0]          \* its attempts that returned False

InitHist ==
    [attempts   |-> 0,         \* sort_object invocations so far
     done       |-> 0,         \* attempts that returned True
     reset      |-> FALSE,     \* reset_statistics was called
     direct     |-> FALSE,     \* sort_object was called other than by a batch
     batch_sum  |-> 0]         \* sum of the values the batches returned

\* SortingController.__init__: the given robot and strategy, an empty zone
\* manager, sorted_objects_count = 0.
InitController ==
    /\ robot \in {"none", "connected"}
    /\ gripper_api \in {"stub", "link"}
    /\ strategy \in Strategies
    /\ zones = << >>
    /\ sorted_objects_count = 0
    /\ phase = "None"
    /\ failed_at = "none"
    /\ cur = NoObject
    /\ zone_name = "none"
    /\ ret = FALSE
    /\ cmds = << >>
    /\ queue = << >>
    /\ in_batch = FALSE
    /\ sorted_count = 0
    /\ batch_ret = -1
    /\ stats = NoStats
    /\ att = NoAtt
    /\ bat = NoBat
    /\ hist = InitHist

\* config/settings.py as shipped (thresholds and speeds times 10).
Shipped ==
    [OBJECT_CLASSES                 |-> OBJECT_CLASSES,
     DETECTION_CONFIDENCE_THRESHOLD |-> 5,
     MOVEMENT_SPEED                 |-> 5,
     ROTATION_SPEED                 |-> 5]

\* What was raised in main: nothing.
NoRaise == [kind |-> "none", at |-> "none"]

\* main has not begun.
InitMain ==
    /\ main_pc = "validate_settings"
    /\ connection = "None"
    /\ lifecycle = << >>
    /\ frame_count = 0
    /\ raised = NoRaise
    /\ exit_code = -1
    /\ detections = << >>
    /\ absent = 0

\* Threads start() can launch, and threads that call read().
Readers == {"r1", "r2"}

Callers == {"c1", "c2"}

\* ThreadedCamera.__init__: frame None, not stopped, a free lock; no thread.
InitCam ==
    /\ frame = 0
    /\ stopped = FALSE
    /\ lock = "free"
    /\ readers = [r \in Readers |-> [pc |-> "none", frame |-> 0, late |-> FALSE]]
    /\ callers = [c \in Callers |-> [pc |-> "idle", result |-> -1, last |-> "none"]]
    /\ device = [frames |-> 0, last |-> "none"]
    /\ stored = {}

\* The detections of a cycle are given by the centroids of their boxes: the
\* places an object can be at.
Centroids == {<<0, 0>>, <<3, 4>>}

\* A place no detection was at yet.
NeverSeen ==
    [id      |-> 0,            \* track_id its detection got when last there
     missing |-> 0,            \* cycles in a row without a detection since
     back    |-> 0,            \* cycles it had been missing, when the latest
                               \* update brought it back
     alone   |-> FALSE]        \* no other object was tracked then, and no
                               \* detection was reported since

\* ObjectTracker(max_disappeared): an empty registry.
InitTracker ==
    /\ registry = << >>
    /\ next_id = 1
    /\ assigned = << >>
    /\ seen = [p \in Centroids |-> NeverSeen]

\* main is not run, and no tracker used: the configuration is the shipped
\* one.
MainNotRun == InitMain /\ settings = Shipped /\ InitTracker

\* A run of the controller.
Init == InitController /\ pos = Unobserved /\ MainNotRun /\ InitCam

\* A run of the controller in which the position of the chassis is followed.
InitPos == InitController /\ pos \in Starts /\ MainNotRun /\ InitCam

\* sort_object has returned (True or False).
Returned == phase \in {"Done", "Failed"}

\* The finished attempt's locals and result are gone.
NoAttempt ==
    /\ phase' = "None"
    /\ failed_at' = "none"
    /\ cur' = NoObject
    /\ zone_name' = "none"
    /\ ret' = FALSE
    /\ cmds' = << >>
    /\ att' = NoAtt

\* ------------------------------------------------------ sort_object: flow
\* A batch that counted every attempt, failed or not.
batch_count_every_attempt(value) == sorted_count + 1

\* sort_objects_batch: `if self.sort_object(obj): sorted_count += 1`
batch_count_after(value) == IF value THEN sorted_count + 1 ELSE sorted_count

\* Every failure path of sort_object is a bare `return False`.
failure_value(at) == FALSE

\* sort_object returns, with success `value`, from phase `at`; b and h are the
\* histories to continue.
Finish(value, at, b, h) ==
    /\ ret' = IF value THEN TRUE ELSE failure_value(at)
    /\ phase' = IF value THEN "Done" ELSE "Failed"
    /\ failed_at' = IF value THEN "none" ELSE at
    /\ sorted_count' = IF in_batch THEN batch_count_after(value) ELSE sorted_count
    /\ bat' = [b EXCEPT !.failed = @ + (IF in_batch /\ ~value THEN 1 ELSE 0)]
    /\ hist' = [h EXCEPT !.done = @ + (IF value THEN 1 ELSE 0)]

\* The attempt moves on to phase `next`, or returns False at phase `at`.
Advance(next, at) ==
    IF next = "Failed"
    THEN Finish(FALSE, at, bat, hist)
    ELSE /\ phase' = next
         /\ UNCHANGED <<ret, failed_at, sorted_count, bat, hist>>

\* A controller that went on without a zone.
after_resolve_unchecked(found) == "Navigating"

\* `if not zone: return False`
after_resolve(found) == IF found THEN "Navigating" ELSE "Failed"

\* A controller that ignored a failed approach.
after_navigate_unchecked(ok) == "GrippingOpen"

\* `if not self.navigate_to_object(detected_object): return False`
after_navigate(ok) == IF ok THEN "GrippingOpen" ELSE "Failed"

\* pick_up_object: `if not gripper.open(power=50): return False`; an exception
\* is caught and False returned.
after_open(res) == IF res = "ok" THEN "GrippingGrab" ELSE "Failed"

\* A pickup that tried the grab again after it failed.
after_grab_retrying(res) == IF res = "ok" THEN "Transporting" ELSE "GrippingGrab"

\* pick_up_object: `if not gripper.grab_object(power=50): return False`, then
\* sort_object: `if not self.pick_up_object(): return False`
after_grab(res) == IF res = "ok" THEN "Transporting" ELSE "Failed"

\* A controller that put the object down wherever the transport ended.
after_transport_unchecked(ok) == "Placing"

\* `if not movement.move_to_position(...): return False`
after_transport(ok) == IF ok THEN "Placing" ELSE "Failed"

\* A placement that reported the result of zone.add_object().
place_result_with_capacity(res, added) == res = "ok" /\ added

\* place_object_in_zone: False when the release fails or raises; the result of
\* zone.add_object() is not looked at.
place_result(res, added) == res = "ok"

\* A placement that updated the zone whatever the release reported.
zone_updated_unconditionally(res) == TRUE

\* place_object_in_zone: `if not gripper.release_object(power=50): return
\* False` comes before `zone.add_object()`; an exception of the release skips
\* it as well.
zone_updated(res) == res = "ok"

\* A controller that counted the attempt before looking at the placement.
count_after_unconditional(placed) == sorted_objects_count + 1

\* A controller that never counted.
count_after_uncounted(placed) == sorted_objects_count

\* `self.sorted_objects_count += 1` after a successful placement.
count_after(placed) == IF placed THEN sorted_objects_count + 1 ELSE sorted_objects_count

\* A controller that took a strategy for granted.
strategy_assumed(s) == FALSE

\* `if not self.strategy:`
no_strategy(s) == s = "None"

\* Entry of sort_object: `if not self.strategy: return False`.
Begin(obj, b) ==
    LET h == [hist EXCEPT !.attempts = @ + 1,
                          !.direct = @ \/ ~in_batch]
    IN /\ cur' = obj
       /\ cmds' = << >>
       /\ zone_name' = "none"
       /\ att' = [NoAtt EXCEPT !.count0 = sorted_objects_count, !.occ0 = Occupancy]
       /\ IF no_strategy(strategy)
          THEN Finish(FALSE, "NoStrategy", b, h)
          ELSE /\ phase' = "Resolving"
               /\ ret' = FALSE
               /\ failed_at' = "none"
               /\ bat' = b
               /\ hist' = h
               /\ UNCHANGED sorted_count

Cmd(name, res) == [cmd |-> name, res |-> res]

\* ------------------------------------------------- controller operations
\* set_strategy(strategy)
set_strategy(s) ==
    /\ Idle
    /\ strategy' = s
    /\ NoAttempt
    /\ batch_ret' = -1 /\ stats' = NoStats /\ bat' = NoBat
    /\ UNCHANGED <<others, pos, robot, gripper_api, zones, sorted_objects_count, queue,
                   in_batch, sorted_count, hist>>

\* zone_manager.create_zone(name, position, capacity), as initialize_sorting
\* calls it: refused when the name exists.
create_zone(name, capacity) ==
    /\ Idle
    /\ zones' = IF name \in DOMAIN zones THEN zones ELSE ZoneWith(name, capacity)
    /\ NoAttempt
    /\ batch_ret' = -1 /\ stats' = NoStats /\ bat' = NoBat
    /\ UNCHANGED <<others, pos, robot, gripper_api, strategy, sorted_objects_count, queue,
                   in_batch, sorted_count, hist>>

\* get_sorting_statistics()
StrategyKind == strategy

get_sorting_statistics ==
    /\ Idle
    /\ stats' = [total_sorted |-> sorted_objects_count,
                 strategy     |-> StrategyKind,
                 zones        |-> Cardinality(DOMAIN zones)]
    /\ NoAttempt
    /\ batch_ret' = -1 /\ bat' = NoBat
    /\ UNCHANGED <<others, pos, robot, gripper_api, strategy, zones, sorted_objects_count,
                   queue, in_batch, sorted_count, hist>>

\* A reset that also emptied the zones.
zones_emptied_by_reset ==
    [n \in DOMAIN zones |-> [zones[n] EXCEPT !.occupied = 0]]

\* reset_statistics() assigns sorted_objects_count only: the zones are as
\* they were.
zones_after_reset == zones

\* A reset that left the count alone.
count_kept_by_reset == sorted_objects_count

\* reset_statistics: `self.sorted_objects_count = 0`
count_after_reset == 0

\* reset_statistics()
reset_statistics ==
    /\ Idle
    /\ sorted_objects_count' = count_after_reset
    /\ zones' = zones_after_reset
    /\ hist' = [hist EXCEPT !.reset = TRUE]
    /\ NoAttempt
    /\ batch_ret' = -1 /\ stats' = NoStats /\ bat' = NoBat
    /\ UNCHANGED <<others, pos, robot, gripper_api, strategy, queue, in_batch,
                   sorted_count>>

\* sort_object(detected_object), called directly.
sort_object(obj) ==
    /\ Idle
    /\ hist.attempts < MaxAttempts
    /\ Begin(obj, NoBat)
    /\ batch_ret' = -1 /\ stats' = NoStats
    /\ UNCHANGED <<others, pos, robot, gripper_api, strategy, zones, sorted_objects_count,
                   queue, in_batch>>

\* sort_objects_batch(detected_objects): entry, sorted_count = 0.
sort_objects_batch(objs) ==
    /\ Idle
    /\ hist.attempts + Len(objs) <= MaxAttempts
    /\ in_batch' = TRUE
    /\ queue' = objs
    /\ sorted_count' = 0
    /\ bat' = [NoBat EXCEPT !.input = objs]
    /\ NoAttempt
    /\ batch_ret' = -1 /\ stats' = NoStats
    /\ UNCHANGED <<others, pos, robot, gripper_api, strategy, zones, sorted_objects_count,
                   hist>>

\* A loop that gave up the rest of the list after an object.
batch_rest_abandoned(q) == << >>

\* `for obj in detected_objects:` takes the next object of the list and calls
\* sort_object on it.
batch_rest(q) == Tail(q)

batch_next ==
    /\ in_batch
    /\ phase \notin Active
    /\ queue # << >>
    /\ Begin(Head(queue), [bat EXCEPT !.attempted = Append(@, Head(queue))])
    /\ queue' = batch_rest(queue)
    /\ UNCHANGED <<others, pos, robot, gripper_api, strategy, zones, sorted_objects_count,
                   in_batch, batch_ret, stats>>

\* `return sorted_count` once the list is exhausted.
batch_return ==
    /\ in_batch
    /\ phase \notin Active
    /\ queue = << >>
    /\ in_batch' = FALSE
    /\ batch_ret' = sorted_count
    /\ hist' = [hist EXCEPT !.batch_sum = @ + sorted_count]
    /\ UNCHANGED <<others, pos, robot, gripper_api, strategy, zones, sorted_objects_count,
                   phase, failed_at, cur, zone_name, ret, cmds, queue,
                   sorted_count, stats, att, bat>>

\* -------------------------------------------------- steps of one attempt
\* A movement controller that called the chassis whatever the robot.
chassis_assumed == TRUE

\* RobotMovement.__init__: self.chassis = robot.chassis if robot else None;
\* every primitive returns False without a chassis command when it is None.
chassis_available == robot = "connected"

\* move_forward / move_to_position: True once the chassis call returned,
\* False when it raised.
move_result(outcome) == outcome = "ok"

\* 1. zone_name = strategy.determine_zone(obj); zone = get_zone(zone_name).
\* An exception of the strategy reaches the `except Exception` of sort_object.
Resolving ==
    /\ phase = "Resolving"
    /\ IF strategy = "RaisingStrategy"
       THEN /\ Finish(FALSE, "Resolving", bat, hist)
            /\ UNCHANGED <<zone_name, att>>
       ELSE LET zn == determine_zone(cur)
                found == ZoneFound(zn)
            IN /\ zone_name' = zn
               /\ att' = [att EXCEPT !.zone_absent = ~found]
               /\ Advance(after_resolve(found), "Resolving")
    /\ UNCHANGED <<others, pos, robot, gripper_api, strategy, zones, sorted_objects_count,
                   cur, cmds, queue, in_batch, batch_ret, stats>>

\* 2. navigate_to_object: reads detected_object.center (AttributeError when
\* the object has none, caught, False), then move_forward(0.3, 0.3).
Navigating ==
    /\ phase = "Navigating"
    /\ IF cur.has_center /\ chassis_available
       THEN \E o \in ChassisOutcomes :
               /\ cmds' = Append(cmds, Cmd("move_forward", o))
               /\ pos' = move_forward(pos, ApproachDistance, o)
               /\ Advance(after_navigate(move_result(o)), "Navigating")
       ELSE /\ cmds' = cmds
            /\ pos' = pos
            /\ Advance(after_navigate(FALSE), "Navigating")
    /\ UNCHANGED <<others, robot, gripper_api, strategy, zones, sorted_objects_count,
                   cur, zone_name, queue, in_batch, batch_ret, stats, att>>

\* 3a. pick_up_object: gripper.open(power=50)
GrippingOpen ==
    /\ phase = "GrippingOpen"
    /\ \E r \in GripperOutcomes(gripper_api) :
          /\ cmds' = Append(cmds, Cmd("open", r))
          /\ Advance(after_open(r), "Gripping")
    /\ UNCHANGED <<others, pos, robot, gripper_api, strategy, zones, sorted_objects_count,
                   cur, zone_name, queue, in_batch, batch_ret, stats, att>>

\* 3b. pick_up_object: gripper.grab_object(power=50)
GrippingGrab ==
    /\ phase = "GrippingGrab"
    /\ \E r \in GripperOutcomes(gripper_api) :
          /\ cmds' = Append(cmds, Cmd("grab_object", r))
          /\ Advance(after_grab(r), "Gripping")
    /\ UNCHANGED <<others, pos, robot, gripper_api, strategy, zones, sorted_objects_count,
                   cur, zone_name, queue, in_batch, batch_ret, stats, att>>

\* 4. RobotMovement(self.robot).move_to_position(zone.position)
Transporting ==
    /\ phase = "Transporting"
    /\ IF chassis_available
       THEN \E o \in ChassisOutcomes :
               /\ cmds' = Append(cmds, Cmd("move_to_position", o))
               /\ pos' = move_to_position(pos, zone_position(zone_name), o)
               /\ Advance(after_transport(move_result(o)), "Transporting")
       ELSE /\ cmds' = cmds
            /\ pos' = pos
            /\ Advance(after_transport(FALSE), "Transporting")
    /\ UNCHANGED <<others, robot, gripper_api, strategy, zones, sorted_objects_count,
                   cur, zone_name, queue, in_batch, batch_ret, stats, att>>

\* 5. place_object_in_zone(zone_name): gripper.release_object(power=50); when
\* it succeeded, `zone = get_zone(zone_name); if zone: zone.add_object()`;
\* then sort_object counts the object and returns True.
Placing ==
    /\ phase = "Placing"
    /\ \E r \in GripperOutcomes(gripper_api) :
          LET adds   == zone_updated(r) /\ ZoneFound(zone_name)
              added  == adds /\ add_object_ok(zone_name)
              placed == place_result(r, added)
          IN /\ cmds' = Append(cmds, Cmd("release_object", r))
             /\ zones' = IF adds THEN add_object(zone_name) ELSE zones
             /\ sorted_objects_count' = count_after(placed)
             /\ att' = [att EXCEPT !.cap_refused = adds /\ ~added]
             /\ Finish(placed, "Placing", bat, hist)
    /\ UNCHANGED <<others, pos, robot, gripper_api, strategy, cur, zone_name, queue,
                   in_batch, batch_ret, stats>>

\* ----------------------------------------------------------- specification
Batches == UNION {[1..n -> Objects] : n \in 0..MaxBatch}

Next ==
    \/ \E s \in Strategies : set_strategy(s)
    \/ \E n \in ZoneNames, c \in 1..MaxCapacity : create_zone(n, c)
    \/ get_sorting_statistics
    \/ reset_statistics
    \/ \E obj \in Objects : sort_object(obj)
    \/ \E objs \in Batches : sort_objects_batch(objs)
    \/ batch_next
    \/ batch_return
    \/ Resolving
    \/ Navigating
    \/ GrippingOpen
    \/ GrippingGrab
    \/ Transporting
    \/ Placing

Spec == Init /\ [][Next]_vars

SpecPos == InitPos /\ [][Next]_vars

\* ================================================================ main.py
\* `detection_interval = 30`
detection_interval == 30

\* Frames the camera hands to main in a run.
MaxFrames == 61

\* Absent frames in a row that are counted.
MaxAbsent == 2

\* Values of a threshold or speed times 10: below, at the ends of, inside and
\* above [0, 1].
Tenths == {-1, 0, 5, 10, 11}

\* Configurations main may find: one, two (as shipped) or three object
\* classes, any of the values for the threshold and the speeds.
Settings ==
    [OBJECT_CLASSES                 : {{"cup"}, OBJECT_CLASSES, AllClasses},
     DETECTION_CONFIDENCE_THRESHOLD : Tenths,
     MOVEMENT_SPEED                 : Tenths,
     ROTATION_SPEED                 : Tenths]

\* `if len(OBJECT_CLASSES) < 3: raise ValueError(...)`
min_object_classes == 3

\* A validation that left out the check of the rotation speed.
validate_settings_without_rotation(cfg) ==
    /\ Cardinality(cfg.OBJECT_CLASSES) >= min_object_classes
    /\ 0 <= cfg.DETECTION_CONFIDENCE_THRESHOLD /\ cfg.DETECTION_CONFIDENCE_THRESHOLD <= 10
    /\ 0 <= cfg.MOVEMENT_SPEED /\ cfg.MOVEMENT_SPEED <= 10

\* settings.validate_settings(): TRUE when it returns, FALSE when it raises
\* ValueError.
validate_settings(cfg) ==
    /\ Cardinality(cfg.OBJECT_CLASSES) >= min_object_classes
    /\ 0 <= cfg.DETECTION_CONFIDENCE_THRESHOLD /\ cfg.DETECTION_CONFIDENCE_THRESHOLD <= 10
    /\ 0 <= cfg.MOVEMENT_SPEED /\ cfg.MOVEMENT_SPEED <= 10
    /\ 0 <= cfg.ROTATION_SPEED /\ cfg.ROTATION_SPEED <= 10

\* RobotConnection.connect(): the one of the source tree returns False; one
\* that implements the robot link connects or fails.
ConnectOutcomes == {"ok", "fail"}

\* ObjectDetector.load_model(): the one of the source tree returns False.
LoadModelOutcomes == {"ok", "fail"}

\* camera.start_stream(display=False): RobotCamera.start_stream(self) of the
\* source tree takes no `display` (TypeError); a camera of the robot link
\* starts or fails.
StartStreamOutcomes == {"ok", "fail", "raise"}

\* camera.get_frame(): a frame, None (all the source tree's camera returns),
\* or an exception.
GetFrameOutcomes == {"frame", "None", "raise"}

\* detector.detect_objects(processed): a list of DetectedObject, given by
\* their classes (the source tree's detector returns the empty list).
DetectedClasses == Classes \cup {"person"}

Detections == UNION {[1..n -> DetectedClasses] : n \in 0..2}

\* Statements before the inner try, and statements of the `while True` body.
PreLoop == {"validate_settings", "initialize_robot", "initialize_vision",
            "initialize_sorting", "start_stream"}

MainLoop == {"get_frame", "detect_objects", "sort_object"}

\* The part of the controller an attempt does not touch, and the rest.
\* (Begin, Finish and NoAttempt assign the variables of `attempt`.)
beside_attempt == <<pos, robot, gripper_api, strategy, zones,
                    sorted_objects_count, queue, in_batch>>

\* main returns `code`.
Exit(code) == main_pc' = "exit" /\ exit_code' = code

\* An exception raised before the inner try reaches `except Exception` of
\* the outer try: return 1.
Fatal(at) == raised' = [kind |-> "Exception", at |-> at] /\ Exit(1)

\* An exception raised in the loop leaves it through the `finally` block.
LoopRaise(kind) ==
    /\ raised' = [kind |-> kind, at |-> main_pc]
    /\ main_pc' = "stop_stream"
    /\ UNCHANGED <<connection, lifecycle, frame_count, exit_code, settings,
                   detections, absent>>

\* settings.validate_settings()
main_validate_settings ==
    /\ main_pc = "validate_settings"
    /\ IF validate_settings(settings)
       THEN main_pc' = "initialize_robot" /\ UNCHANGED <<raised, exit_code>>
       ELSE Fatal("validate_settings")
    /\ UNCHANGED <<connection, lifecycle, frame_count, settings, detections,
                   absent, notMain>>

\* connection, ... = initialize_robot(); `if not connection: return 1`
main_initialize_robot ==
    /\ main_pc = "initialize_robot"
    /\ \E o \in ConnectOutcomes :
          IF o = "ok"
          THEN /\ connection' = "RobotConnection"
               /\ main_pc' = "initialize_vision"
               /\ UNCHANGED exit_code
          ELSE /\ connection' = "None"
               /\ Exit(1)
    /\ UNCHANGED <<lifecycle, frame_count, raised, settings, detections,
                   absent, notMain>>

\* initialize_vision(): RuntimeError when load_model fails.
main_initialize_vision ==
    /\ main_pc = "initialize_vision"
    /\ \E o \in LoadModelOutcomes :
          IF o = "ok"
          THEN main_pc' = "initialize_sorting" /\ UNCHANGED <<raised, exit_code>>
          ELSE Fatal("initialize_vision")
    /\ UNCHANGED <<connection, lifecycle, frame_count, settings, detections,
                   absent, notMain>>

\* config/settings.py: SORTING_ZONES[name]["capacity"].
capacity ==
    [n \in SORTING_ZONES |-> IF n = "zone_default" THEN 20 ELSE 10]

\* An initialization that created the zones of the class mapping only.
mapped_zones_only == {CLASS_ZONE_MAPPING[c] : c \in DOMAIN CLASS_ZONE_MAPPING}

\* initialize_sorting: `for zone_name, zone_config in
\* settings.SORTING_ZONES.items(): create_zone(...)`
zones_to_create == SORTING_ZONES

\* sorting_controller = initialize_sorting(connection.robot): a controller
\* for the connected robot with a ClassBasedStrategy(CLASS_ZONE_MAPPING), and
\* a zone for every entry of SORTING_ZONES.
main_initialize_sorting ==
    /\ main_pc = "initialize_sorting"
    /\ main_pc' = "start_stream"
    /\ robot' = "connected"
    /\ strategy' = "ClassBasedStrategy"
    /\ zones' = [n \in zones_to_create |-> [capacity |-> capacity[n], occupied |-> 0]]
    /\ sorted_objects_count' = 0
    /\ UNCHANGED <<connection, lifecycle, frame_count, raised, exit_code,
                   settings, detections, absent>>
    /\ UNCHANGED <<pos, gripper_api, phase, failed_at, cur, zone_name, ret, cmds,
                   queue, in_batch, sorted_count, batch_ret, stats, att, bat,
                   hist, aside>>

\* `if not camera.start_stream(display=False): return 1`
main_start_stream ==
    /\ main_pc = "start_stream"
    /\ lifecycle' = Append(lifecycle, "start_stream")
    /\ \E o \in StartStreamOutcomes :
          CASE o = "ok"    -> main_pc' = "get_frame" /\ UNCHANGED <<raised, exit_code>>
            [] o = "fail"  -> Exit(1) /\ UNCHANGED raised
            [] o = "raise" -> Fatal("start_stream")
    /\ UNCHANGED <<connection, frame_count, settings, detections, absent, notMain>>

\* A loop that took an absent frame for the end of the stream.
after_absent_frame_leaving == "stop_stream"

\* `if frame is None: ... time.sleep(0.1); continue`
after_absent_frame == "get_frame"

\* A loop that ran a detection on every frame.
detection_due_always(n) == TRUE

\* `if frame_count % detection_interval == 0:`
detection_due(n) == n % detection_interval = 0

\* `frame = camera.get_frame()`; None: sleep and continue; else frame_count
\* += 1 and, every detection_interval frames, a detection cycle.
main_get_frame ==
    /\ main_pc = "get_frame"
    /\ \E o \in GetFrameOutcomes :
          CASE o = "None" ->
                 /\ absent < MaxAbsent
                 /\ absent' = absent + 1
                 /\ main_pc' = after_absent_frame
                 /\ UNCHANGED <<connection, lifecycle, frame_count, raised,
                                exit_code, settings, detections>>
            [] o = "frame" ->
                 /\ frame_count < MaxFrames
                 /\ frame_count' = frame_count + 1
                 /\ absent' = 0
                 /\ main_pc' = IF detection_due(frame_count + 1)
                               THEN "detect_objects" ELSE "get_frame"
                 /\ UNCHANGED <<connection, lifecycle, raised, exit_code,
                                settings, detections>>
            [] o = "raise" -> LoopRaise("Exception")
    /\ UNCHANGED notMain

\* `target_detections = [obj for obj in detections if obj.class_name in
\* settings.OBJECT_CLASSES]`
target_detections(d) == SelectSeq(d, LAMBDA c : c \in settings.OBJECT_CLASSES)

\* A detection cycle: preprocess_for_detection, detect_objects, the filter
\* for the target classes and, when a target was detected, the call of
\* sort_object on the first of them.
main_detect_objects ==
    /\ main_pc = "detect_objects"
    /\ \/ LoopRaise("Exception") /\ UNCHANGED controller
       \/ \E d \in Detections :
             /\ detections' = d
             /\ UNCHANGED <<connection, frame_count, raised, exit_code, settings,
                            absent>>
             /\ IF target_detections(d) = << >>
                THEN /\ main_pc' = "get_frame"
                     /\ lifecycle' = Append(lifecycle, "detect_objects")
                     /\ UNCHANGED controller
                ELSE /\ main_pc' = "sort_object"
                     /\ lifecycle' = lifecycle \o <<"detect_objects", "sort_object">>
                     /\ Begin(DetectedObject(Head(target_detections(d))), NoBat)
                     /\ batch_ret' = -1 /\ stats' = NoStats
                     /\ UNCHANGED beside_attempt
    /\ UNCHANGED aside

\* sort_object returned (True or False): the log line, then
\* `stats = sorting_controller.get_sorting_statistics()` and the end of the
\* iteration.
main_sort_object ==
    /\ main_pc = "sort_object"
    /\ Returned
    /\ main_pc' = "get_frame"
    /\ stats' = [total_sorted |-> sorted_objects_count,
                 strategy     |-> StrategyKind,
                 zones        |-> Cardinality(DOMAIN zones)]
    /\ NoAttempt
    /\ UNCHANGED <<connection, lifecycle, frame_count, raised, exit_code,
                   settings, detections, absent>>
    /\ UNCHANGED <<beside_attempt, sorted_count, batch_ret, bat, hist, aside>>

\* KeyboardInterrupt: in the loop, `except KeyboardInterrupt` of the inner
\* try and then its `finally`; before the loop, `except KeyboardInterrupt`
\* of the outer try: return 0.  Raised inside sort_object (whose handlers
\* catch Exception only) it ends the attempt without a result.
main_KeyboardInterrupt ==
    /\ main_pc \in PreLoop \cup MainLoop
    /\ IF main_pc \in MainLoop
       THEN LoopRaise("KeyboardInterrupt")
       ELSE /\ raised' = [kind |-> "KeyboardInterrupt", at |-> main_pc]
            /\ Exit(0)
            /\ UNCHANGED <<connection, lifecycle, frame_count, settings,
                           detections, absent>>
    /\ IF main_pc = "sort_object"
       THEN /\ NoAttempt
            /\ UNCHANGED <<beside_attempt, sorted_count, batch_ret, stats, bat, hist>>
       ELSE UNCHANGED controller
    /\ UNCHANGED aside

\* finally: camera.stop_stream()
main_stop_stream ==
    /\ main_pc = "stop_stream"
    /\ lifecycle' = Append(lifecycle, "stop_stream")
    /\ main_pc' = "disconnect"
    /\ UNCHANGED <<connection, frame_count, raised, exit_code, settings,
                   detections, absent, notMain>>

\* finally: connection.disconnect()
main_disconnect ==
    /\ main_pc = "disconnect"
    /\ lifecycle' = Append(lifecycle, "disconnect")
    /\ main_pc' = "return"
    /\ UNCHANGED <<connection, frame_count, raised, exit_code, settings,
                   detections, absent, notMain>>

\* A main for which the interrupt was an error like any other.
after_finally_fatal(kind) == 1

\* After the finally block: `return 0` when the loop ended by the handled
\* KeyboardInterrupt; an exception goes on to `except Exception: return 1`.
after_finally(kind) == IF kind = "KeyboardInterrupt" THEN 0 ELSE 1

main_return ==
    /\ main_pc = "return"
    /\ Exit(after_finally(raised.kind))
    /\ UNCHANGED <<connection, lifecycle, frame_count, raised, settings,
                   detections, absent, notMain>>

\* The steps of main and, inside its call of sort_object, the steps of the
\* attempt.  The object is a DetectedObject, so that the attempt ends in
\* Navigating and the later steps are never taken.
NextMain ==
    \/ main_validate_settings
    \/ main_initialize_robot
    \/ main_initialize_vision
    \/ main_initialize_sorting
    \/ main_start_stream
    \/ main_get_frame
    \/ main_detect_objects
    \/ Resolving
    \/ Navigating
    \/ main_sort_object
    \/ main_KeyboardInterrupt
    \/ main_stop_stream
    \/ main_disconnect
    \/ main_return

\* A run of main, on any of the configurations.
InitOfMain ==
    /\ InitMain
    /\ settings \in Settings
    /\ InitController /\ robot = "none" /\ gripper_api = "stub" /\ strategy = "None"
    /\ pos = Unobserved
    /\ InitCam
    /\ InitTracker

SpecMain == InitOfMain /\ [][NextMain]_vars

\* ========================================================= ThreadedCamera
\* Frames the device delivers in a run.
MaxDeviceFrames == 3

\* ep_camera.read_cv2_image(): a frame, None, or an exception.
DeviceOutcomes == {"frame", "None", "raise"}

\* A start() that cleared the flag.
stopped_cleared_by_start(s) == FALSE

\* start() does not assign self.stopped.
stopped_after_start(s) == s

\* start(): threading.Thread(target=self._update, daemon=True).start()
start ==
    /\ \E r \in Readers :
          /\ readers[r].pc = "none"
          /\ r = "r2" => readers["r1"].pc # "none"
          /\ readers' = [readers EXCEPT ![r].pc = "while", ![r].late = stopped]
    /\ stopped' = stopped_after_start(stopped)
    /\ UNCHANGED <<frame, lock, callers, device, stored, notCam>>

\* stop(): self.stopped = True
stop ==
    /\ stopped' = TRUE
    /\ UNCHANGED <<frame, lock, readers, callers, device, stored, notCam>>

\* A loop that did not look at the flag.
loop_test_ignoring_stopped(s) == "read_cv2_image"

\* `while not self.stopped:` the loop body begins with the device read.
loop_test(s) == IF s THEN "exit" ELSE "read_cv2_image"

\* _update: `while not self.stopped:`
update_while(r) ==
    /\ readers[r].pc = "while"
    /\ readers' = [readers EXCEPT ![r].pc = loop_test(stopped)]
    /\ UNCHANGED <<frame, stopped, lock, callers, device, stored, notCam>>

\* A reader that an error of the device ended.
after_device_error_fatal == "exit"

\* _update: `except: pass`, then the sleep at the end of the loop body.
after_device_error == "sleep"

\* A reader that stored whatever the device returned, None included.
after_device_read_unfiltered(o) ==
    CASE o = "frame" -> "acquire"
      [] o = "None"  -> "acquire"
      [] o = "raise" -> after_device_error

\* _update: `if frame is not None:` leads to the `with self.lock:` block.
after_device_read(o) ==
    CASE o = "frame" -> "acquire"
      [] o = "None"  -> "sleep"
      [] o = "raise" -> after_device_error

\* _update: `frame = self.ep_camera.read_cv2_image()`, no lock held.
update_read_cv2_image(r) ==
    /\ readers[r].pc = "read_cv2_image"
    /\ \E o \in DeviceOutcomes :
          /\ o = "frame" => device.frames < MaxDeviceFrames
          /\ device' = [frames |-> device.frames + (IF o = "frame" THEN 1 ELSE 0),
                        last   |-> o]
          /\ readers' = [readers EXCEPT
                            ![r].pc = after_device_read(o),
                            ![r].frame = IF o = "frame" THEN device.frames + 1 ELSE @]
    /\ UNCHANGED <<frame, stopped, lock, callers, stored, notCam>>

\* A lock that let every thread in.
lock_free_for_all(l) == TRUE

\* threading.Lock: acquired only when no thread holds it.
lock_free(l) == l = "free"

\* _update: entry of `with self.lock:`
update_acquire(r) ==
    /\ readers[r].pc = "acquire"
    /\ lock_free(lock)
    /\ lock' = r
    /\ readers' = [readers EXCEPT ![r].pc = "assign"]
    /\ UNCHANGED <<frame, stopped, callers, device, stored, notCam>>

\* A slot that kept the first frame it was given.
slot_keeps_first(old, new) == IF old = 0 THEN new ELSE old

\* `self.frame = frame`
slot_after_assign(old, new) == new

\* _update: `self.frame = frame` and the exit of the with block.  The local
\* is dead from here to the next device read.
update_assign(r) ==
    /\ readers[r].pc = "assign"
    /\ frame' = slot_after_assign(frame, readers[r].frame)
    /\ stored' = stored \cup {slot_after_assign(frame, readers[r].frame)}
    /\ lock' = "free"
    /\ readers' = [readers EXCEPT ![r].pc = "sleep", ![r].frame = 0]
    /\ UNCHANGED <<stopped, callers, device, notCam>>

\* _update: time.sleep(0.01), back to the loop test.
update_sleep(r) ==
    /\ readers[r].pc = "sleep"
    /\ readers' = [readers EXCEPT ![r].pc = "while"]
    /\ UNCHANGED <<frame, stopped, lock, callers, device, stored, notCam>>

\* A thread calls read().
read_call(c) ==
    /\ callers[c].pc = "idle"
    /\ callers' = [callers EXCEPT ![c] = [pc |-> "acquire", result |-> -1, last |-> "none"]]
    /\ UNCHANGED <<frame, stopped, lock, readers, device, stored, notCam>>

\* read: entry of `with self.lock:`
read_acquire(c) ==
    /\ callers[c].pc = "acquire"
    /\ lock_free(lock)
    /\ lock' = c
    /\ callers' = [callers EXCEPT ![c].pc = "locked"]
    /\ UNCHANGED <<frame, stopped, readers, device, stored, notCam>>

\* read: `return self.frame` and the exit of the with block; `last` notes
\* what the latest device read had yielded by then.
read_return(c) ==
    /\ callers[c].pc = "locked"
    /\ callers' = [callers EXCEPT ![c] = [pc |-> "idle", result |-> frame, last |-> device.last]]
    /\ lock' = "free"
    /\ UNCHANGED <<frame, stopped, readers, device, stored, notCam>>

NextCam ==
    \/ start
    \/ stop
    \/ \E r \in Readers : update_while(r)
    \/ \E r \in Readers : update_read_cv2_image(r)
    \/ \E r \in Readers : update_acquire(r)
    \/ \E r \in Readers : update_assign(r)
    \/ \E r \in Readers : update_sleep(r)
    \/ \E c \in Callers : read_call(c)
    \/ \E c \in Callers : read_acquire(c)
    \/ \E c \in Callers : read_return(c)

\* A run of a ThreadedCamera; main and the controller are not followed.
InitOfCam ==
    /\ InitCam
    /\ MainNotRun
    /\ InitController /\ robot = "none" /\ gripper_api = "stub" /\ strategy = "None"
    /\ pos = Unobserved

SpecCam == InitOfCam /\ [][NextCam]_vars

\* Fair scheduling of the threads: a reader that can take its next step takes
\* it, a device read returns, a read() inside the with block leaves it, and a
\* reader waiting for the lock gets it when it is free again and again.
FairCam ==
    /\ \A r \in Readers :
          /\ WF_vars(update_while(r))
          /\ WF_vars(update_read_cv2_image(r))
          /\ SF_vars(update_acquire(r))
          /\ WF_vars(update_assign(r))
          /\ WF_vars(update_sleep(r))
    /\ \A c \in Callers : WF_vars(read_return(c))

\* The threads of NextCam with main as the one thread that calls read().
NextCamMain ==
    \/ start
    \/ stop
    \/ \E r \in Readers : update_while(r)
    \/ \E r \in Readers : update_read_cv2_image(r)
    \/ \E r \in Readers : update_acquire(r)
    \/ \E r \in Readers : update_assign(r)
    \/ \E r \in Readers : update_sleep(r)
    \/ read_call("c1")
    \/ read_acquire("c1")
    \/ read_return("c1")

SpecCamFair == InitOfCam /\ [][NextCamMain]_vars /\ FairCam

\* ================================================= ObjectTracker (spec 4.2)
\* ObjectTracker(max_disappeared=settings.MAX_DISAPPEARED_FRAMES)
max_disappeared == 10

\* track_ids allocated in a run.
MaxIds == 3

\* Square of the Euclidean distance of two centroids.
distance2(a, b) ==
    (a[1] - b[1]) * (a[1] - b[1]) + (a[2] - b[2]) * (a[2] - b[2])

\* The order in which the detections of a list are taken.
Before(a, b) == a[1] < b[1] \/ (a[1] = b[1] /\ a[2] < b[2])

\* The detection of `dets` nearest to centroid c (the first of them in the
\* list, should two be as near).
nearest(c, dets) ==
    CHOOSE d \in dets :
       \A e \in dets \ {d} :
          \/ distance2(c, d) < distance2(c, e)
          \/ distance2(c, d) = distance2(c, e) /\ Before(d, e)

\* The tracked objects in ascending track_id take, each in its turn, the
\* nearest detection no object has taken yet: the pairs <<track_id, centroid>>.
RECURSIVE match(_, _, _)
match(ids, dets, pairs) ==
    IF ids = {} \/ dets = {}
    THEN pairs
    ELSE LET i == CHOOSE j \in ids : \A k \in ids : j <= k
             d == nearest(registry[i].centroid, dets)
         IN match(ids \ {i}, dets \ {d}, pairs \cup {<<i, d>>})

\* A tracker that evicted an object at max_disappeared already.
evicted_at_threshold(n) == n >= max_disappeared

\* Evicted when disappeared_count > max_disappeared.
evicted(n) == n > max_disappeared

\* The track_ids of the detections no tracked object took: from the counter,
\* in the order of the list.
RECURSIVE register(_, _)
register(dets, n) ==
    IF dets = {}
    THEN {}
    ELSE LET d == CHOOSE a \in dets : \A b \in dets \ {a} : Before(a, b)
         IN {<<n, d>>} \cup register(dets \ {d}, n + 1)

\* update(detections): match, age and evict the unmatched objects, register
\* the unmatched detections; returns the track_id of each detection.
tracker_update(dets) ==
    LET matched  == match(DOMAIN registry, dets, {})
        taken    == {m[2] : m \in matched}
        kept     == {i \in DOMAIN registry :
                       \/ \E m \in matched : m[1] = i
                       \/ ~evicted(registry[i].disappeared + 1)}
        new      == register(dets \ taken, next_id)
        pairs    == matched \cup new
        id_of(d) == (CHOOSE m \in pairs : m[2] = d)[1]
        reg      == [i \in kept \cup {m[1] : m \in new} |->
                       IF \E m \in pairs : m[1] = i
                       THEN [centroid    |-> (CHOOSE m \in pairs : m[1] = i)[2],
                             disappeared |-> 0]
                       ELSE [registry[i] EXCEPT !.disappeared = @ + 1]]
    IN /\ next_id + Cardinality(dets \ taken) <= MaxIds + 1
       /\ registry' = reg
       /\ next_id' = next_id + Cardinality(new)
       /\ assigned' = [d \in dets |-> id_of(d)]
       /\ seen' = [p \in Centroids |->
                     IF p \in dets
                     THEN [id      |-> id_of(p),
                           missing |-> 0,
                           back    |-> seen[p].missing,
                           alone   |-> DOMAIN reg = {id_of(p)}]
                     ELSE IF seen[p].id = 0
                     THEN seen[p]
                     ELSE [seen[p] EXCEPT
                             !.missing = IF @ > max_disappeared THEN @ ELSE @ + 1,
                             !.back    = 0,
                             !.alone   = @ /\ dets = {}]]
       /\ UNCHANGED notTracker

NextTracker == \E dets \in SUBSET Centroids : tracker_update(dets)

\* A run of the tracker.
InitOfTracker ==
    /\ InitTracker
    /\ InitMain /\ settings = Shipped
    /\ InitController /\ robot = "none" /\ gripper_api = "stub" /\ strategy = "None"
    /\ pos = Unobserved
    /\ InitCam

SpecTracker == InitOfTracker /\ [][NextTracker]_vars

\* ================================================================= claims
FailPhases == {"NoStrategy", "Resolving", "Navigating", "Gripping",
               "Transporting", "Placing"}

\* The commands of a complete attempt, in order.
CommandOrder == <<"move_forward", "open", "grab_object", "move_to_position",
                  "release_object">>

Issued(name) == \E i \in 1..Len(cmds) : cmds[i].cmd = name

\* C1: the actuator commands of an attempt are issued in the order approach
\* move, gripper open, grab, move to zone, release; a command is issued only
\* after all commands before it reported success; sort_object returns True
\* only after the release reported success.
C1_CommandOrder ==
    /\ Len(cmds) <= Len(CommandOrder)
    /\ \A i \in 1..Len(cmds) : cmds[i].cmd = CommandOrder[i]
    /\ \A i \in 1..Len(cmds) : i < Len(cmds) => cmds[i].res = "ok"
    /\ (Returned /\ ret) => (Len(cmds) = 5 /\ cmds[5] = Cmd("release_object", "ok"))

C1_Witness == phase = "Done" /\ ret /\ Len(cmds) = 5

\* C2: when the gripper open or the grab fails, a gripper-open recovery
\* command is issued before sort_object reports the failure.
C2_RecoveryOpenBeforeFailure ==
    (phase = "Failed" /\ failed_at = "Gripping") =>
        \E i \in 1..Len(cmds) :
            /\ cmds[i].cmd \in {"open", "grab_object"}
            /\ cmds[i].res # "ok"
            /\ i < Len(cmds)
            /\ cmds[Len(cmds)].cmd = "open"

\* C3: a failed attempt is reported to the caller with the phase at which it
\* failed: what sort_object returns for a failure at one phase differs from
\* what it returns for a failure at any other phase (in particular for a
\* failed transport).
C3_FailureReportedWithPhase ==
    (phase = "Failed") =>
        \A p \in FailPhases \ {failed_at} : failure_value(p) # ret

\* C4: when the zone named by the strategy is not in the zone manager,
\* sort_object returns False, no movement or gripper command is issued, and
\* sorted_objects_count and every occupancy are as before the call.
C4_ZoneNotFound ==
    att.zone_absent =>
        /\ phase = "Failed" /\ ret = FALSE /\ failed_at = "Resolving"
        /\ cmds = << >>
        /\ sorted_objects_count = att.count0
        /\ Occupancy = att.occ0

C4_Witness == att.zone_absent /\ phase = "Failed" /\ strategy = "ClassBasedStrategy"

\* C5: when the release succeeded and add_object was refused for capacity,
\* sort_object returns True and counts the object.
C5_CapacityRefusalStillSuccess ==
    att.cap_refused =>
        /\ phase = "Done" /\ ret = TRUE
        /\ sorted_objects_count = att.count0 + 1
        /\ Occupancy = att.occ0

C5_Witness ==
    /\ att.cap_refused
    /\ cmds[Len(cmds)] = Cmd("release_object", "ok")
    /\ zones[zone_name].occupied = zones[zone_name].capacity

\* C6: sorted_objects_count grows by one with a sort_object that returns True
\* and is unchanged by one that returns False; without reset_statistics,
\* total_sorted is the number of attempts that reached Done.
C6_CountIsDone ==
    /\ Returned => sorted_objects_count = att.count0 + (IF ret THEN 1 ELSE 0)
    /\ phase \in Active => sorted_objects_count = att.count0
    /\ ~hist.reset => sorted_objects_count = hist.done
    /\ (stats # NoStats /\ ~hist.reset) => stats.total_sorted = hist.done

C6_Witness ==
    /\ stats # NoStats /\ ~hist.reset
    /\ stats.total_sorted >= 1
    /\ hist.attempts > hist.done + 1

\* C7: sort_objects_batch on N objects of which K fail returns N-K; after a
\* sequence of batches total_sorted is the sum of the values they returned.
C7_BatchReturnsSuccesses ==
    /\ batch_ret # -1 => batch_ret = Len(bat.input) - bat.failed
    /\ (Idle /\ ~hist.direct /\ ~hist.reset) => sorted_objects_count = hist.batch_sum
    /\ (stats # NoStats /\ ~hist.direct /\ ~hist.reset) =>
            stats.total_sorted = hist.batch_sum

C7_Witness ==
    /\ batch_ret >= 1 /\ bat.failed >= 1
    /\ hist.batch_sum > batch_ret
    /\ ~hist.direct /\ ~hist.reset

C9_NoRetry ==
    \A i, j \in 1..Len(cmds) : i # j => cmds[i].cmd # cmds[j].cmd

C9_Witness ==
    /\ phase = "Failed" /\ failed_at = "Gripping"
    /\ Len(cmds) = 3 /\ cmds[3].res = "fail"

\* C10: when the move to the zone fails after a successful pickup, the
\* attempt ends there: no release and no further open is issued, and no
\* occupancy and not sorted_objects_count changes.
C10_TransportFailureKeepsObject ==
    (\E i \in 1..Len(cmds) : cmds[i].cmd = "move_to_position" /\ cmds[i].res # "ok") =>
        /\ phase = "Failed" /\ failed_at = "Transporting" /\ ret = FALSE
        /\ ~Issued("release_object")
        /\ [i \in 1..Len(cmds) |-> cmds[i].cmd]
              = <<"move_forward", "open", "grab_object", "move_to_position">>
        /\ cmds[3] = Cmd("grab_object", "ok")
        /\ sorted_objects_count = att.count0
        /\ Occupancy = att.occ0

C10_Witness ==
    /\ phase = "Failed" /\ failed_at = "Transporting"
    /\ Len(cmds) = 4 /\ cmds[4] = Cmd("move_to_position", "raise")

\* C11: an occupancy is incremented only after the release of the attempt
\* reported success; when the release fails or raises, sort_object returns
\* False and every occupancy and sorted_objects_count are as before the call.
C11_ReleaseFailureChangesNothing ==
    /\ (\E i \in 1..Len(cmds) : cmds[i].cmd = "release_object" /\ cmds[i].res # "ok") =>
            /\ phase = "Failed" /\ failed_at = "Placing" /\ ret = FALSE
            /\ sorted_objects_count = att.count0
            /\ Occupancy = att.occ0
    /\ ((phase \in Active \/ Returned) /\ Occupancy # att.occ0) =>
            /\ cmds # << >>
            /\ cmds[Len(cmds)] = Cmd("release_object", "ok")

C11_Witness ==
    /\ phase = "Failed" /\ failed_at = "Placing"
    /\ Len(cmds) = 5 /\ cmds[5] = Cmd("release_object", "fail")
    /\ zones[zone_name].occupied < zones[zone_name].capacity

\* C12: an attempt on a detected object (a DetectedObject or any other) in
\* which the robot has a chassis, every actuator command reported success and
\* the target zone exists and was below capacity returns True and increments
\* the occupancy of that zone by one, every other occupancy staying as it was.
C12_AllSuccessSorts ==
    (/\ Returned
     /\ chassis_available
     /\ strategy = "ClassBasedStrategy"
     /\ ~att.zone_absent
     /\ att.occ0[zone_name] < zones[zone_name].capacity
     /\ \A i \in 1..Len(cmds) : cmds[i].res = "ok") =>
        /\ ret = TRUE
        /\ Occupancy = [att.occ0 EXCEPT ![zone_name] = @ + 1]

\* C13: every step of the controller leaves each zone in place with an
\* occupancy not below the one before; an occupancy changes only in Placing,
\* by one.
C13_OccupancyMonotone ==
    [][\A n \in DOMAIN zones :
          /\ n \in DOMAIN zones'
          /\ zones'[n].occupied >= zones[n].occupied
          /\ zones'[n].occupied # zones[n].occupied =>
                 /\ phase = "Placing"
                 /\ zones'[n].occupied = zones[n].occupied + 1]_vars

\* reset_statistics ran after a zone was filled: the count is back at 0 and
\* the zone is still occupied.
C13_Witness ==
    /\ hist.reset /\ sorted_objects_count = 0
    /\ \E n \in DOMAIN zones : zones[n].occupied >= 1

\* C14: once the move to the zone succeeded (until the attempt returns), the
\* chassis is at the configured position of the target zone, in every
\* attempt of a run.
C14_ReleaseAtZonePosition ==
    (\E i \in 1..Len(cmds) : cmds[i] = Cmd("move_to_position", "ok")) =>
        pos = zone_position(zone_name)

Called(name) == \E i \in 1..Len(lifecycle) : lifecycle[i] = name

\* C15: when main has returned and the connection had been established, the
\* camera stream was stopped and the link disconnected.
C15_CleanupOnEveryExit ==
    (main_pc = "exit" /\ connection = "RobotConnection") =>
        (Called("stop_stream") /\ Called("disconnect"))

\* C16: after a KeyboardInterrupt in the loop no further statement of the
\* loop runs; the stream is stopped, then the link disconnected, and main
\* returns 0.
C16_InterruptNotFatal ==
    (raised.kind = "KeyboardInterrupt" /\ raised.at \in MainLoop) =>
        /\ main_pc \in {"stop_stream", "disconnect", "return", "exit"}
        /\ main_pc \in {"disconnect", "return", "exit"} => Called("stop_stream")
        /\ main_pc \in {"return", "exit"} =>
               SelectSeq(lifecycle, LAMBDA c : c \notin {"detect_objects", "sort_object"})
                  = <<"start_stream", "stop_stream", "disconnect">>
        /\ main_pc = "exit" => exit_code = 0
        /\ main_pc # "exit" => exit_code = -1

C16_Witness ==
    /\ main_pc = "exit" /\ exit_code = 0
    /\ raised = [kind |-> "KeyboardInterrupt", at |-> "sort_object"]
    /\ frame_count = detection_interval
    /\ Called("disconnect")

\* The threads inside a `with self.lock:` block.
InCritical ==
    {r \in Readers : readers[r].pc = "assign"} \cup
    {c \in Callers : callers[c].pc = "locked"}

\* One reader only was started.
SingleReader == readers["r2"].pc = "none"

\* Reader r, or caller c, takes a step.
Steps(r) == readers'[r] # readers[r]

Returns(c) == callers[c].pc = "locked" /\ callers'[c].pc = "idle"

\* C17: at most one thread is inside a with-lock block, the one that holds
\* the lock, and what read() returned is None or a frame that was stored.
C17_SlotMutualExclusion ==
    /\ Cardinality(InCritical) <= 1
    /\ \A t \in InCritical : lock = t
    /\ lock # "free" => lock \in InCritical
    /\ \A c \in Callers : callers[c].result \in {-1, 0} \cup stored

\* A read() waits for the lock while the reader is assigning the slot.
C17_Witness ==
    \E r \in Readers, c \in Callers :
        /\ readers[r].pc = "assign" /\ readers[r].frame >= 2
        /\ callers[c].pc = "acquire"

C19_MissingFrameIsAbsent ==
    \A c \in Callers :
        (callers[c].result # -1 /\ callers[c].last \in {"None", "raise"}) =>
            callers[c].result = 0

\* C20: a reader is out of its loop only when stopped is set; a device read
\* that raised leaves the slot as it was and the reader at the sleep of the
\* loop body, from where it goes back to the loop test and, unless stopped,
\* to the next device read.
C20_DeviceErrorDoesNotEndReader ==
    /\ [](\A r \in Readers : readers[r].pc = "exit" => stopped)
    /\ [][\A r \in Readers :
            /\ (readers[r].pc = "read_cv2_image" /\ Steps(r) /\ device'.last = "raise") =>
                   (frame' = frame /\ readers'[r].pc = "sleep")
            /\ (readers[r].pc = "sleep" /\ Steps(r)) => readers'[r].pc = "while"
            /\ (readers[r].pc = "while" /\ Steps(r) /\ ~stopped) =>
                   readers'[r].pc = "read_cv2_image"]_vars

\* After a device read that raised, the reader is in its next device read,
\* not stopped, the slot still holding the frame stored before.
C20_Witness ==
    /\ device.last = "raise" /\ ~stopped /\ SingleReader
    /\ readers["r1"].pc = "read_cv2_image"
    /\ frame >= 1 /\ frame = device.frames

\* C21: once stopped is set, every reader that was started leaves its loop;
\* from then on no reader enters a device read, and none enters the with
\* block but from the device read it was in (so each does at most one more
\* device read and one more write of the slot); a reader that has left its
\* loop stays out of it.
C21_StopTerminatesAcquisition ==
    /\ \A r \in Readers :
          (stopped /\ readers[r].pc # "none") ~> (readers[r].pc = "exit")
    /\ [][\A r \in Readers :
            /\ (stopped /\ Steps(r)) => readers'[r].pc # "read_cv2_image"
            /\ (stopped /\ Steps(r) /\ readers'[r].pc = "acquire") =>
                   readers[r].pc = "read_cv2_image"
            /\ readers[r].pc = "exit" => readers'[r].pc = "exit"]_vars

\* A reader that had stored frames has left its loop after stop().
C21_Witness ==
    /\ stopped /\ readers["r1"].pc = "exit"
    /\ frame >= 2 /\ frame = device.frames

\* C22: at most one reader is in its loop at any time.
C22_AtMostOneReader ==
    Cardinality({r \in Readers : readers[r].pc \notin {"none", "exit"}}) <= 1

\* C23: an absent frame is tolerated and retried: the loop goes on with the
\* next get_frame, frame_count is not advanced, and no detection, sort or
\* exit comes of that iteration.
C23_AbsentFrameRetried ==
    [][absent' = absent + 1 =>
          /\ main_pc = "get_frame" /\ main_pc' = "get_frame"
          /\ frame_count' = frame_count
          /\ lifecycle' = lifecycle
          /\ raised' = raised /\ exit_code' = exit_code
          /\ UNCHANGED controller]_vars

C23_Witness ==
    /\ main_pc = "get_frame"
    /\ absent >= 2
    /\ frame_count = detection_interval - 1
    /\ ~Called("detect_objects")

\* C24: every call of sort_object in main comes directly after an update of
\* the tracker with the detections of the cycle.
C24_SortedObjectComesFromTracker ==
    \A i \in 1..Len(lifecycle) :
       lifecycle[i] = "sort_object" =>
          (i > 1 /\ lifecycle[i - 1] = "tracker.update")

\* main is past settings.validate_settings(), which ran.
Validated ==
    /\ main_pc # "validate_settings"
    /\ raised # [kind |-> "KeyboardInterrupt", at |-> "validate_settings"]

\* main has returned 1 for the ValueError of validate_settings.
Rejected ==
    /\ main_pc = "exit" /\ exit_code = 1
    /\ raised = [kind |-> "Exception", at |-> "validate_settings"]
    /\ connection = "None" /\ lifecycle = << >>

OutOfRange(v) == v < 0 \/ v > 10

C26_TwoClassesPass ==
    (/\ Validated
     /\ Cardinality(settings.OBJECT_CLASSES) = 2
     /\ ~OutOfRange(settings.MOVEMENT_SPEED)
     /\ ~OutOfRange(settings.ROTATION_SPEED)
     /\ ~OutOfRange(settings.DETECTION_CONFIDENCE_THRESHOLD))
    => ~Rejected

\* C27: once initialize_sorting has run, the strategy resolves every class
\* of OBJECT_CLASSES, and every class a detection can have, to a zone that
\* exists, an unmapped class to the default zone; no sort of main fails in
\* the zone resolution.
C27_ZoneResolutionNeverFails ==
    strategy = "ClassBasedStrategy" =>
        /\ \A c \in settings.OBJECT_CLASSES \cup DetectedClasses :
              /\ ZoneFound(determine_zone(DetectedObject(c)))
              /\ c \notin DOMAIN CLASS_ZONE_MAPPING =>
                    determine_zone(DetectedObject(c)) = DefaultZone
        /\ ~att.zone_absent
        /\ failed_at # "Resolving"
        /\ phase \in {"Navigating", "Failed"} =>
              /\ zone_name = determine_zone(cur)
              /\ ZoneFound(zone_name)

C27_Witness ==
    /\ main_pc = "sort_object"
    /\ cur.class_name = "spoon"
    /\ zone_name = DefaultZone
    /\ phase = "Navigating"

\* The object of the sort in flight is the first detection of the cycle
\* whose class is a target class.
FirstTarget ==
    \E i \in 1..Len(detections) :
       /\ cur = DetectedObject(detections[i])
       /\ detections[i] \in settings.OBJECT_CLASSES
       /\ \A j \in 1..(i - 1) : detections[j] \notin settings.OBJECT_CLASSES

\* C30: sort_object is invoked on the first target-class detection of a
\* detection cycle only, at most once per cycle, on every 30th non-absent
\* frame only; while the sort is in flight no frame is fetched and no other
\* sort begun.
C30_SortOnlyOnDetectionCycle ==
    /\ [](/\ phase # "None" <=> main_pc = "sort_object"
          /\ main_pc = "sort_object" =>
                /\ frame_count > 0
                /\ frame_count % detection_interval = 0
                /\ FirstTarget
          /\ hist.attempts <= frame_count \div detection_interval
          /\ \A i \in 1..Len(lifecycle) :
                lifecycle[i] = "sort_object" =>
                   /\ i > 1 /\ lifecycle[i - 1] = "detect_objects"
                   /\ i < Len(lifecycle) => lifecycle[i + 1] # "sort_object")
    /\ [][main_pc = "sort_object" =>
             /\ frame_count' = frame_count
             /\ absent' = absent
             /\ detections' = detections
             /\ hist'.attempts = hist.attempts
             /\ cur' \in {cur, NoObject}]_vars

C30_Witness ==
    /\ main_pc = "sort_object"
    /\ frame_count = 2 * detection_interval
    /\ hist.attempts = 2
    /\ Len(detections) = 2
    /\ detections[1] = "person"
    /\ cur.class_name = "cup"
    /\ phase = "Failed"

\* C28: the value get_sorting_statistics returns has total_sorted, the kind
\* of the strategy, the number of zones and the occupancy of every zone, each
\* as the state has it.
C28_StatisticsSnapshot ==
    stats # NoStats =>
        /\ stats.total_sorted = sorted_objects_count
        /\ stats.strategy = StrategyKind
        /\ stats.zones = Cardinality(DOMAIN zones)
        /\ "per_zone_occupancy" \in DOMAIN stats
        /\ stats.per_zone_occupancy = Occupancy

\* The detection at place p, there before, comes back in this update after
\* `seen[p].missing` cycles without it.
Reappears(p) ==
    /\ seen[p].id # 0
    /\ seen[p].missing > 0
    /\ p \in DOMAIN assigned'
    /\ seen'[p].missing = 0

RECURSIVE OccupancySum(_)
OccupancySum(names) ==
    IF names = {}
    THEN 0
    ELSE LET n == CHOOSE m \in names : TRUE
         IN zones[n].occupied + OccupancySum(names \ {n})

TotalOccupancy == OccupancySum(DOMAIN zones)

\* add_object is refused for capacity in this step.
RefusedNow == att'.cap_refused /\ ~att.cap_refused

\* C31: without reset_statistics the occupancies of the zones sum to at most
\* sorted_objects_count; the count runs ahead of the sum by one with every
\* add_object refused for capacity and by nothing else, so that the two are
\* equal until the first refusal.
C31_OccupancySumBelowCount ==
    /\ [](~hist.reset => TotalOccupancy <= sorted_objects_count)
    /\ [][~hist'.reset =>
             sorted_objects_count' - TotalOccupancy' =
                (sorted_objects_count - TotalOccupancy) + (IF RefusedNow THEN 1 ELSE 0)]_vars

C31_Witness ==
    /\ ~hist.reset
    /\ att.cap_refused
    /\ sorted_objects_count = 2
    /\ TotalOccupancy = 1

\* C32: sort_object on a controller with no strategy returns False, with no
\* zone resolved, no command issued, and the count and the occupancies as
\* before the call; no step of an attempt is ever taken without a strategy.
C32_NoStrategyReturnsFalse ==
    /\ strategy = "None" => phase \notin Active \cup {"Done"}
    /\ (strategy = "None" /\ phase = "Failed") => failed_at = "NoStrategy"
    /\ failed_at = "NoStrategy" =>
          /\ strategy = "None"
          /\ phase = "Failed" /\ ret = FALSE
          /\ zone_name = "none"
          /\ cmds = << >>
          /\ sorted_objects_count = att.count0
          /\ Occupancy = att.occ0

C32_Witness ==
    /\ failed_at = "NoStrategy"
    /\ cur.has_center
    /\ robot = "connected"
    /\ DOMAIN zones = ZoneNames
    /\ sorted_objects_count = 1

\* C33: reset_statistics (the one step that lowers the count) sets
\* sorted_objects_count to 0 and leaves the strategy and the zones, with their
\* occupancies, as they are.
C33_ResetLeavesZones ==
    [][(sorted_objects_count' < sorted_objects_count \/ hist'.reset # hist.reset) =>
          /\ hist'.reset
          /\ sorted_objects_count' = 0
          /\ strategy' = strategy
          /\ zones' = zones
          /\ robot' = robot /\ gripper_api' = gripper_api]_vars

\* After a reset the statistics report fewer objects than the zones hold.
C33_Witness ==
    /\ hist.reset
    /\ stats # NoStats
    /\ stats.total_sorted = 0
    /\ TotalOccupancy = 1

\* The commands sent to the chassis in the attempt.
ChassisCmds == {i \in 1..Len(cmds) : cmds[i].cmd \in {"move_forward", "move_to_position"}}

\* C36: a movement primitive returns False, and sort_object with it, when
\* there is no chassis (no chassis command is sent then) or when the chassis
\* command raised; on a controller without a connected robot an attempt that
\* got past the zone resolution fails at Navigating with no command at all.
C36_MovementFailsByValue ==
    /\ robot = "none" =>
          /\ cmds = << >>
          /\ phase \notin {"GrippingOpen", "GrippingGrab", "Transporting", "Placing", "Done"}
          /\ phase = "Failed" => failed_at \in {"NoStrategy", "Resolving", "Navigating"}
          /\ (phase = "Failed" /\ zone_name # "none" /\ ~att.zone_absent) =>
                (failed_at = "Navigating" /\ ret = FALSE)
    /\ \A i \in ChassisCmds :
          cmds[i].res = "raise" =>
             /\ i = Len(cmds)
             /\ phase = "Failed" /\ ret = FALSE
             /\ failed_at = (IF cmds[i].cmd = "move_forward"
                             THEN "Navigating" ELSE "Transporting")

C36_Witness ==
    /\ robot = "none"
    /\ cur.has_center
    /\ phase = "Failed" /\ failed_at = "Navigating"
    /\ zone_name \in DOMAIN zones
    /\ cmds = << >>

\* C34: the slot, once it holds a frame, holds a frame ever after; a read()
\* that returns when the slot holds a frame, or after any read() returned a
\* frame, returns a frame: the one in the slot.
C34_SlotNeverAbsentAgain ==
    [][/\ frame # 0 => frame' # 0
       /\ \A c \in Callers :
             Returns(c) =>
                /\ callers'[c].result = frame
                /\ (frame # 0 \/ \E d \in Callers : callers[d].result > 0) =>
                       callers'[c].result > 0]_vars

\* read() returned a frame after stop(), the reader gone and the device's
\* latest read without a frame; the other caller had a frame before.
C34_Witness ==
    /\ stopped
    /\ \A r \in Readers : readers[r].pc \in {"none", "exit"}
    /\ device.last \in {"None", "raise"}
    /\ \A c \in Callers : callers[c].pc = "idle" /\ callers[c].result > 0
    /\ callers["c2"].last = device.last
    /\ callers["c1"].last = "frame"

\* The frame slot is refreshed in this step.
Refreshed == frame' # frame \/ stored' # stored

====
